---- MODULE Spec2Model ----
(***************************************************************************)
(* A model of trin's state sub-network endpoint router                     *)
(* (trin-state/src/lib.rs), the discv5 transport adapter                   *)
(* (trin-core/src/portalnet/discovery.rs) and the peer-test driver         *)
(* (ethportal-peertest/src/main.rs).                                       *)
(*                                                                         *)
(* Each component has its own specification over the shared variables:     *)
(*   RouterSpec / RouterFairSpec : StateRequestHandler and its callers     *)
(*   DiscoverySpec : Discovery::new and Discovery::start                   *)
(*   SharedSpec    : tasks calling one Discovery behind Arc<RwLock<..>>    *)
(*   PeertestSpec  : the peer-test program's main task                     *)
(*   ProcessSpec   : trin-state's main or the peer tester as one process,  *)
(*                   with the interrupt signal and the router's task       *)
(*   DispatcherSpec / DispatcherSlowSpec : the inbound dispatchers of the  *)
(*                   networks sharing one transport                        *)
(*   EngineSpec    : send_find_nodes and the filtering of its reply        *)
(*   HeaderSpec    : the RLP codec of Header                               *)
(*                   (trin-core/src/types/header.rs)                       *)
(***************************************************************************)
EXTENDS Integers, Sequences, FiniteSets, TLC

\* ------------------------------------------------------------------ bounds
MaxCmds == 3        \* commands ever enqueued on one router
MaxBootnodes == 2   \* bootstrap ENRs in a Config
MaxStarts == 3      \* calls of Discovery::start on one adapter
MaxCalls == 4       \* adapter calls issued by the tasks sharing it
MaxFound == 2       \* nodes returned by one find_node lookup
MaxTargets == 2     \* target nodes given to the peer-test program
MaxInbound == 2     \* requests arriving on the transport's inbound stream
MaxNodesReply == 2  \* ENRs in one Nodes or Content reply

CmdIds == 1..MaxCmds
\* The holders of a clone of the command queue's sender.
Producers == {"rpc", "harness"}

VARIABLES
    state_rx,    \* StateRequestHandler.state_rx: the queued commands, oldest first
    state_tx,    \* which producers still hold a sender of the command queue
    cmd_of,      \* the EndpointCommand behind each id: its kind and its producer
    h_pc,        \* position of handle_client_queries: recv, match, exited, dropped
    h_cmd,       \* the command bound to `cmd` in the loop body (0: none)
    resp_tx,     \* cmd.resp, the sending half of each reply slot
    resp_val,    \* the values delivered into each reply slot
    resp_sends,  \* how many times cmd.resp.send was called per command
    caller,      \* the caller holding the receiving half of each reply slot
    enq_log,     \* commands in the order their enqueue completed
    deq_log,     \* commands in the order recv() returned them
    reply_log,   \* commands in the order their reply was sent
    d_res,       \* outcome of Discovery::new: none (not called), ok, err, panic
    d_cfg,       \* the Config given to Discovery::new
    table,       \* the ENRs in the discv5 routing table
    started,     \* Discovery.started
    service,     \* whether the discv5 service is running (Discovery.discv5)
    start_log,   \* one record per call of Discovery::start
    rw_readers,  \* tasks holding a read guard of the RwLock around the adapter
    rw_writer,   \* the task holding its write guard, or "none"
    rw_queue,    \* tasks waiting for the lock, first come first
    t_pc,        \* per task: idle, queued, locked or suspended
    t_op,        \* per task: the adapter method it is calling (or called last)
    t_ret,       \* per task: what that method returned
    t_under,     \* per task: what the underlying discv5 call returned
    talk_calls,  \* per task: calls of discv5.talk_req made by the current method
    calls_made,  \* adapter calls issued so far
    pt_pc,       \* position of the peer-test task
    pt_cfg,      \* PeertestConfig.target_nodes
    pt_i,        \* index of the peer the loop is at
    pt_log       \* the requests sent so far, in order

routerVars == <<state_rx, state_tx, cmd_of, h_pc, h_cmd, resp_tx, resp_val,
                resp_sends, caller, enq_log, deq_log, reply_log>>

discVars == <<d_res, d_cfg, table, started, service, start_log>>

lockVars == <<rw_readers, rw_writer, rw_queue, t_pc, t_op, t_ret, t_under,
              talk_calls, calls_made>>

ptVars == <<pt_pc, pt_cfg, pt_i, pt_log>>

VARIABLES
    sm_pc,       \* trin-state main: the statement it is at
    sm_cfg,      \* the TrinConfig it was started with
    sm_log,      \* the outbound RPCs it has sent, oldest first
    sm_fail,     \* the startup step that failed, "none" while none has
    proc,        \* the process: "running", "killed" by a signal, or "exited"
    sigint,      \* TRUE once the registered ctrl-c listener has seen the signal
    ev_pc        \* the task running events.process_discv5_requests()

smVars == <<sm_pc, sm_cfg, sm_log, sm_fail, proc, sigint, ev_pc>>

VARIABLES
    inbound,     \* the transport's inbound stream: every TalkRequest so far
    cursor,      \* per network: how many entries its dispatcher has pulled
    pending,     \* per network: the requests whose store lookup is under way
    replies      \* every reply sent on a reply slot, oldest first

dispVars == <<inbound, cursor, pending, replies>>

VARIABLES
    fn_pc,       \* send_find_nodes: "idle", "sent" or "returned"
    fn_args,     \* its arguments: the distances and the remote peer
    fn_sent,     \* the request payload handed to the transport
    fn_ret       \* the talk request's outcome and the call's result

engVars == <<fn_pc, fn_args, fn_sent, fn_ret>>

VARIABLES
    hc_pc,       \* the header codec's caller: where its round trip stands
    hc_bytes,    \* the RLP list given to the decoder, item by item
    hc_hdr,      \* the Header given to the encoder
    hc_seal,     \* the with_seal flag of the last encoding
    hc_stream,   \* what stream_rlp put on the stream: declared length, items
    hc_dec       \* the decoder's result

hdrVars == <<hc_pc, hc_bytes, hc_hdr, hc_seal, hc_stream, hc_dec>>

restVars == <<smVars, dispVars, engVars, hdrVars>>

vars == <<routerVars, discVars, lockVars, ptVars, restVars>>

notRouter == <<discVars, lockVars, ptVars, restVars>>
notDisc == <<routerVars, lockVars, ptVars, restVars>>
notPt == <<routerVars, discVars, lockVars, restVars>>
notSm == <<routerVars, discVars, lockVars, ptVars, dispVars, engVars, hdrVars>>
notDisp == <<routerVars, discVars, lockVars, ptVars, smVars, engVars, hdrVars>>
notEng == <<routerVars, discVars, lockVars, ptVars, smVars, dispVars, hdrVars>>
notHdr == <<routerVars, discVars, lockVars, ptVars, smVars, dispVars, engVars>>

\* ----------------------------------------------------------------- helpers
Range(s) == {s[i] : i \in 1..Len(s)}

IsPrefix(s, t) == Len(s) <= Len(t) /\ \A i \in 1..Len(s) : s[i] = t[i]

Last(s) == s[Len(s)]

\* --------------------------------------------------------- endpoint router
StateEndpointKind == {"GetStateNetworkData"}

NoCommand == [kind |-> "none", from |-> "nobody"]

\* Ok(Value::String("0xmockstatedata"))
MockStateData == [ok |-> TRUE, value |-> "0xmockstatedata"]

RouterInitVars ==
    /\ state_rx = <<>>
    /\ state_tx = [p \in Producers |-> TRUE]
    /\ cmd_of = [c \in CmdIds |-> NoCommand]
    /\ h_pc = "recv"
    /\ h_cmd = 0
    /\ resp_tx = [c \in CmdIds |-> "unborn"]
    /\ resp_val = [c \in CmdIds |-> <<>>]
    /\ resp_sends = [c \in CmdIds |-> 0]
    /\ caller = [c \in CmdIds |-> "none"]
    /\ enq_log = <<>>
    /\ deq_log = <<>>
    /\ reply_log = <<>>

\* A producer builds a command with a fresh reply slot and pushes it on the
\* unbounded queue; it keeps the receiving half and waits on it.  Commands are
\* numbered in the order their enqueue completes.
SendCommand(p, c, k) ==
    /\ state_tx[p]
    /\ h_pc \in {"recv", "match"}
    /\ c = Len(enq_log) + 1
    /\ resp_tx[c] = "unborn"
    /\ state_rx' = Append(state_rx, c)
    /\ cmd_of' = [cmd_of EXCEPT ![c] = [kind |-> k, from |-> p]]
    /\ resp_tx' = [resp_tx EXCEPT ![c] = "live"]
    /\ caller' = [caller EXCEPT ![c] = "waiting"]
    /\ enq_log' = Append(enq_log, c)
    /\ UNCHANGED <<state_tx, h_pc, h_cmd, resp_val, resp_sends, deq_log, reply_log>>
    /\ UNCHANGED notRouter

\* A producer drops its clone of the queue's sender.
DropSender(p) ==
    /\ state_tx[p]
    /\ state_tx' = [state_tx EXCEPT ![p] = FALSE]
    /\ UNCHANGED <<state_rx, cmd_of, h_pc, h_cmd, resp_tx, resp_val, resp_sends,
                   caller, enq_log, deq_log, reply_log>>
    /\ UNCHANGED notRouter

\* A caller stops waiting and drops the receiving half of its reply slot.
CallerDrop(c) ==
    /\ caller[c] = "waiting"
    /\ caller' = [caller EXCEPT ![c] = "abandoned"]
    /\ UNCHANGED <<state_rx, state_tx, cmd_of, h_pc, h_cmd, resp_tx, resp_val,
                   resp_sends, enq_log, deq_log, reply_log>>
    /\ UNCHANGED notRouter

\* A waiting caller polls its slot: a value is a reply, a slot whose sending
\* half is gone without a value is closed.
CallerObserve(c) ==
    /\ caller[c] = "waiting"
    /\ \/ /\ resp_val[c] # <<>>
          /\ caller' = [caller EXCEPT ![c] = "replied"]
       \/ /\ resp_val[c] = <<>>
          /\ resp_tx[c] \in {"consumed", "dropped"}
          /\ caller' = [caller EXCEPT ![c] = "cancelled"]
    /\ UNCHANGED <<state_rx, state_tx, cmd_of, h_pc, h_cmd, resp_tx, resp_val,
                   resp_sends, enq_log, deq_log, reply_log>>
    /\ UNCHANGED notRouter

\* A variant of recv that hands out the newest command first.
recv_newest_first ==
    /\ h_pc = "recv"
    /\ state_rx # <<>>
    /\ h_cmd' = Last(state_rx)
    /\ state_rx' = SubSeq(state_rx, 1, Len(state_rx) - 1)
    /\ deq_log' = Append(deq_log, Last(state_rx))
    /\ h_pc' = "match"
    /\ UNCHANGED <<state_tx, cmd_of, resp_tx, resp_val, resp_sends, caller,
                   enq_log, reply_log>>
    /\ UNCHANGED notRouter

\* `while let Some(cmd) = self.state_rx.recv().await`: the oldest command.
recv ==
    /\ h_pc = "recv"
    /\ state_rx # <<>>
    /\ h_cmd' = Head(state_rx)
    /\ state_rx' = Tail(state_rx)
    /\ deq_log' = Append(deq_log, Head(state_rx))
    /\ h_pc' = "match"
    /\ UNCHANGED <<state_tx, cmd_of, resp_tx, resp_val, resp_sends, caller,
                   enq_log, reply_log>>
    /\ UNCHANGED notRouter

\* recv() yields None once every sender is gone and the queue is empty: the
\* loop and the task end.
recv_none ==
    /\ h_pc = "recv"
    /\ state_rx = <<>>
    /\ \A p \in Producers : ~state_tx[p]
    /\ h_pc' = "exited"
    /\ UNCHANGED <<state_rx, state_tx, cmd_of, h_cmd, resp_tx, resp_val,
                   resp_sends, caller, enq_log, deq_log, reply_log>>
    /\ UNCHANGED notRouter

\* A variant of the match arm that drops the command without replying.
match_kind_no_reply ==
    /\ h_pc = "match"
    /\ cmd_of[h_cmd].kind = "GetStateNetworkData"
    /\ resp_tx' = [resp_tx EXCEPT ![h_cmd] = "dropped"]
    /\ h_pc' = "recv"
    /\ h_cmd' = 0
    /\ UNCHANGED <<state_rx, state_tx, cmd_of, resp_val, resp_sends, caller,
                   enq_log, deq_log, reply_log>>
    /\ UNCHANGED notRouter

\* A variant of the match arm that unwraps the result of send.
match_kind_unwrap ==
    /\ h_pc = "match"
    /\ cmd_of[h_cmd].kind = "GetStateNetworkData"
    /\ resp_sends' = [resp_sends EXCEPT ![h_cmd] = @ + 1]
    /\ resp_tx' = [resp_tx EXCEPT ![h_cmd] = "consumed"]
    /\ reply_log' = Append(reply_log, h_cmd)
    /\ IF caller[h_cmd] = "waiting"
          THEN /\ resp_val' = [resp_val EXCEPT ![h_cmd] = Append(@, MockStateData)]
               /\ h_pc' = "recv"
               /\ h_cmd' = 0
          ELSE /\ resp_val' = resp_val
               /\ h_pc' = "panicked"
               /\ h_cmd' = h_cmd
    /\ UNCHANGED <<state_rx, state_tx, cmd_of, caller, enq_log, deq_log>>
    /\ UNCHANGED notRouter

\* `match cmd.kind { GetStateNetworkData => { let _ = cmd.resp.send(Ok(..)); } }`
\* send delivers the value when the caller still holds the receiving half and
\* fails otherwise; the result is discarded and the loop goes on.
match_kind ==
    /\ h_pc = "match"
    /\ cmd_of[h_cmd].kind = "GetStateNetworkData"
    /\ resp_sends' = [resp_sends EXCEPT ![h_cmd] = @ + 1]
    /\ resp_tx' = [resp_tx EXCEPT ![h_cmd] = "consumed"]
    /\ reply_log' = Append(reply_log, h_cmd)
    /\ resp_val' = IF caller[h_cmd] = "waiting"
                      THEN [resp_val EXCEPT ![h_cmd] = Append(@, MockStateData)]
                      ELSE resp_val
    /\ h_pc' = "recv"
    /\ h_cmd' = 0
    /\ UNCHANGED <<state_rx, state_tx, cmd_of, caller, enq_log, deq_log>>
    /\ UNCHANGED notRouter

\* A variant of teardown that leaks the queued commands instead of dropping
\* them.
drop_handler_leak ==
    /\ h_pc = "recv"
    /\ h_pc' = "dropped"
    /\ state_rx' = <<>>
    /\ UNCHANGED <<state_tx, cmd_of, h_cmd, resp_tx, resp_val, resp_sends,
                   caller, enq_log, deq_log, reply_log>>
    /\ UNCHANGED notRouter

\* The consumer task is dropped while suspended in recv().await (its only
\* suspension point): StateRequestHandler owns state_rx, so the receiver is
\* dropped, and with it every queued command and its cmd.resp.
drop_handler ==
    /\ h_pc = "recv"
    /\ h_pc' = "dropped"
    /\ state_rx' = <<>>
    /\ resp_tx' = [c \in CmdIds |->
                      IF c \in Range(state_rx) THEN "dropped" ELSE resp_tx[c]]
    /\ UNCHANGED <<state_tx, cmd_of, h_cmd, resp_val, resp_sends, caller,
                   enq_log, deq_log, reply_log>>
    /\ UNCHANGED notRouter

handle_client_queries ==
    \/ recv
    \/ recv_none
    \/ match_kind

RouterNext ==
    \/ \E p \in Producers, c \in CmdIds, k \in StateEndpointKind : SendCommand(p, c, k)
    \/ \E p \in Producers : DropSender(p)
    \/ \E c \in CmdIds : CallerDrop(c)
    \/ \E c \in CmdIds : CallerObserve(c)
    \/ handle_client_queries
    \/ drop_handler

\* ------------------------------------------------------- discovery adapter
Ok(v) == [ok |-> TRUE, value |-> v]

Err(e) == [ok |-> FALSE, value |-> e]

SeqsUpTo(S, n) == UNION {[1..k -> S] : k \in 0..n}

Enrs == {"enr_a", "enr_b", "enr_x"}

\* The ENRs for which discv5.add_enr returns an error.
Refused == {"enr_x"}

\* Config.private_key: None, bytes of a valid secp256k1 key, or other bytes.
KeyMaterial == {"absent", "valid", "malformed"}

Configs == [private_key : KeyMaterial,
            bootnode_enrs : SeqsUpTo(Enrs, MaxBootnodes)]

\* Config::default()
DefaultConfig == [private_key |-> "absent", bootnode_enrs |-> <<>>]

DiscInitVars ==
    /\ d_res = "none"
    /\ d_cfg = DefaultConfig
    /\ table = {}
    /\ started = FALSE
    /\ service = FALSE
    /\ start_log = <<>>

\* discv5.add_enr(enr)
add_enr(tbl, enr) ==
    IF enr \in Refused
       THEN [res |-> Err("refused"), table |-> tbl]
       ELSE [res |-> Ok("unit"), table |-> tbl \cup {enr}]

\* `for enr in config.bootnode_enrs { discv5.add_enr(enr).map_err(..)?; }`
RECURSIVE add_bootnodes(_, _)
add_bootnodes(tbl, enrs) ==
    IF enrs = <<>>
       THEN [res |-> Ok("unit"), table |-> tbl]
       ELSE LET r == add_enr(tbl, Head(enrs))
            IN  IF r.res.ok
                   THEN add_bootnodes(r.table, Tail(enrs))
                   ELSE [res |-> Err(<<"Failed to add enr", r.res.value>>),
                         table |-> r.table]

\* Discovery::new(config).  secp256k1_from_bytes(..).unwrap() panics on bytes
\* that are no key; a failing Discv5::new or add_enr is returned as Err and
\* the half-built discv5 is dropped; Ok carries started = false.
Discovery_new(cfg, discv5_new_ok) ==
    /\ d_res = "none"
    /\ d_cfg' = cfg
    /\ LET r == add_bootnodes({}, cfg.bootnode_enrs)
       IN  IF cfg.private_key = "malformed"
              THEN d_res' = "panic" /\ table' = {}
              ELSE IF ~discv5_new_ok
                      THEN d_res' = "err" /\ table' = {}
                      ELSE IF r.res.ok
                              THEN d_res' = "ok" /\ table' = r.table
                              ELSE d_res' = "err" /\ table' = {}
    /\ started' = FALSE
    /\ UNCHANGED <<service, start_log>>
    /\ UNCHANGED notDisc

\* discv5.start(listen_socket): refuses a second start of a running service,
\* fails when the socket cannot be bound, and runs the service otherwise.
discv5_start(svc, bind_ok) ==
    IF svc
       THEN [res |-> Err("ServiceAlreadyStarted"), service |-> TRUE]
       ELSE IF bind_ok
               THEN [res |-> Ok("unit"), service |-> TRUE]
               ELSE [res |-> Err("Io"), service |-> FALSE]

\* A variant of start that stores the outcome of every attempt in `started`.
Discovery_start_flag_follows(bind_ok) ==
    /\ d_res = "ok"
    /\ Len(start_log) < MaxStarts
    /\ LET r == discv5_start(service, bind_ok)
           ret == IF r.res.ok
                     THEN Ok("unit")
                     ELSE Err(<<"Failed to start discv5 server", r.res.value>>)
       IN  /\ started' = r.res.ok
           /\ service' = r.service
           /\ start_log' = Append(start_log,
                                  [before |-> started, ret |-> ret,
                                   after |-> r.res.ok, running |-> r.service])
    /\ UNCHANGED <<d_res, d_cfg, table>>
    /\ UNCHANGED notDisc

\* Discovery::start(listen_socket): `discv5.start(..).await.map_err(..)?`
\* returns early on an error; only after Ok is `started` set.
Discovery_start(bind_ok) ==
    /\ d_res = "ok"
    /\ Len(start_log) < MaxStarts
    /\ LET r == discv5_start(service, bind_ok)
           ret == IF r.res.ok
                     THEN Ok("unit")
                     ELSE Err(<<"Failed to start discv5 server", r.res.value>>)
           after == IF r.res.ok THEN TRUE ELSE started
       IN  /\ started' = after
           /\ service' = r.service
           /\ start_log' = Append(start_log,
                                  [before |-> started, ret |-> ret,
                                   after |-> after, running |-> r.service])
    /\ UNCHANGED <<d_res, d_cfg, table>>
    /\ UNCHANGED notDisc

DiscoveryNext ==
    \/ \E cfg \in Configs, discv5_new_ok \in BOOLEAN : Discovery_new(cfg, discv5_new_ok)
    \/ \E bind_ok \in BOOLEAN : Discovery_start(bind_ok)

\* ------------------------------------- the adapter shared between tasks
\* `Arc::new(RwLock::new(discovery))`: every task reaches the adapter through
\* one tokio RwLock.
Tasks == {"t1", "t2", "t3"}

Methods == {"send_talkreq", "connected_peers", "connected_peers_len",
            "local_enr", "discover_nodes"}

\* The receiver each method declares: `&self` or `&mut self`.
Receiver(m) ==
    IF m \in {"connected_peers", "discover_nodes"} THEN "mut" ELSE "shared"

\* Through the lock a `&self` method needs a read guard and a `&mut self`
\* method the write guard.
Guard(m) == IF Receiver(m) = "mut" THEN "write" ELSE "read"

\* The async methods keep their guard while suspended in the discv5 call.
Async(m) == m \in {"send_talkreq", "discover_nodes"}

TalkPeers == {"enr_a", "enr_b"}

TalkBytes == {<<>>, <<7>>}

TalkErrors == {"NoSession", "Timeout", "MalformedResponse"}

\* What discv5.talk_req can hand back.
TalkResults == {Ok(b) : b \in TalkBytes} \cup {Err(e) : e \in TalkErrors}

\* What discv5.find_node can hand back.
Lookups == {Err("QueryFailed")} \cup {Ok(ns) : ns \in SeqsUpTo(Enrs, MaxFound)}

NoOp == [name |-> "none", enr |-> "none"]

Ops == [name : {"send_talkreq"}, enr : TalkPeers]
          \cup [name : Methods \ {"send_talkreq"}, enr : {"none"}]

NoRet == [ok |-> TRUE, value |-> "pending"]

LockIdleVars ==
    /\ rw_readers = {}
    /\ rw_writer = "none"
    /\ rw_queue = <<>>
    /\ t_pc = [t \in Tasks |-> "idle"]
    /\ t_op = [t \in Tasks |-> NoOp]
    /\ t_ret = [t \in Tasks |-> NoRet]
    /\ t_under = [t \in Tasks |-> NoRet]
    /\ talk_calls = [t \in Tasks |-> 0]
    /\ calls_made = 0

\* The adapter as trin-state's main leaves it before sharing it: built by
\* Discovery::new with one bootnode and started once.
DiscReadyVars ==
    /\ d_res = "ok"
    /\ d_cfg = [private_key |-> "absent", bootnode_enrs |-> <<"enr_a">>]
    /\ table = {"enr_a"}
    /\ started = TRUE
    /\ service = TRUE
    /\ start_log = <<[before |-> FALSE, ret |-> Ok("unit"), after |-> TRUE,
                      running |-> TRUE]>>

\* tokio's RwLock: any number of read guards or one write guard.
CanGrant(mode, readers, writer) ==
    /\ writer = "none"
    /\ mode = "write" => readers = {}

\* The lock is fair: waiters are served first come first, so a released lock
\* goes to the head of the queue, and on to the waiters behind it for as long
\* as the head can be granted.
RECURSIVE Handoff(_, _, _)
Handoff(readers, writer, queue) ==
    IF queue = <<>> \/ ~CanGrant(Guard(t_op[Head(queue)].name), readers, writer)
       THEN [readers |-> readers, writer |-> writer, queue |-> queue]
       ELSE IF Guard(t_op[Head(queue)].name) = "read"
               THEN Handoff(readers \cup {Head(queue)}, writer, Tail(queue))
               ELSE Handoff(readers, Head(queue), Tail(queue))

\* Dropping task t's guard.
Release(t) ==
    Handoff(rw_readers \ {t}, IF rw_writer = t THEN "none" ELSE rw_writer, rw_queue)

\* A task calls a method of the shared adapter: `discovery.read().await` or
\* `discovery.write().await`.  The guard is granted at once when nobody waits
\* and the lock allows it; otherwise the task queues.
Call(t, op) ==
    /\ t_pc[t] = "idle"
    /\ calls_made < MaxCalls
    /\ calls_made' = calls_made + 1
    /\ t_op' = [t_op EXCEPT ![t] = op]
    /\ t_ret' = [t_ret EXCEPT ![t] = NoRet]
    /\ t_under' = [t_under EXCEPT ![t] = NoRet]
    /\ talk_calls' = [talk_calls EXCEPT ![t] = 0]
    /\ IF rw_queue = <<>> /\ CanGrant(Guard(op.name), rw_readers, rw_writer)
          THEN /\ t_pc' = [t_pc EXCEPT ![t] = "locked"]
               /\ rw_readers' = IF Guard(op.name) = "read"
                                   THEN rw_readers \cup {t} ELSE rw_readers
               /\ rw_writer' = IF Guard(op.name) = "write" THEN t ELSE rw_writer
               /\ rw_queue' = rw_queue
          ELSE /\ t_pc' = [t_pc EXCEPT ![t] = "queued"]
               /\ rw_queue' = Append(rw_queue, t)
               /\ UNCHANGED <<rw_readers, rw_writer>>
    /\ UNCHANGED <<routerVars, discVars, ptVars, restVars>>

\* The method of task t returns `ret` and its guard is dropped.
Return(t, ret) ==
    LET l == Release(t)
        woken == Range(rw_queue) \ Range(l.queue)
    IN  /\ t_ret' = [t_ret EXCEPT ![t] = ret]
        /\ rw_readers' = l.readers
        /\ rw_writer' = l.writer
        /\ rw_queue' = l.queue
        /\ t_pc' = [u \in Tasks |->
                       IF u = t THEN "idle"
                       ELSE IF u \in woken THEN "locked" ELSE t_pc[u]]

\* connected_peers_len, connected_peers and local_enr: no suspension.
SyncReturns(m) ==
    CASE m = "connected_peers" -> {Ok(table)}
      [] m = "connected_peers_len" -> {Ok(n) : n \in 0..Cardinality(table)}
      [] m = "local_enr" -> {Ok("local_enr")}
      [] OTHER -> {}

Exec(t) ==
    /\ t_pc[t] = "locked"
    /\ ~Async(t_op[t].name)
    /\ \E ret \in SyncReturns(t_op[t].name) : Return(t, ret)
    /\ UNCHANGED <<t_op, t_under, talk_calls, calls_made>>
    /\ UNCHANGED <<routerVars, discVars, ptVars, restVars>>

\* send_talkreq and discover_nodes hand their request to discv5 and suspend.
Issue(t) ==
    /\ t_pc[t] = "locked"
    /\ Async(t_op[t].name)
    /\ t_pc' = [t_pc EXCEPT ![t] = "suspended"]
    /\ talk_calls' = [talk_calls EXCEPT ![t] =
                         IF t_op[t].name = "send_talkreq" THEN @ + 1 ELSE @]
    /\ UNCHANGED <<rw_readers, rw_writer, rw_queue, t_op, t_ret, t_under, calls_made>>
    /\ UNCHANGED <<routerVars, discVars, ptVars, restVars>>

\* A variant of send_talkreq that answers a failed request with empty bytes.
send_talkreq_default(r) == IF r.ok THEN Ok(r.value) ELSE Ok(<<>>)

\* send_talkreq: `.map_err(|e| format!("TalkReq query failed: {:?}", e))?`
\* then `Ok(response)`.
send_talkreq(r) ==
    IF r.ok THEN Ok(r.value) ELSE Err(<<"TalkReq query failed", r.value>>)

\* discv5 resumes a suspended send_talkreq with a response or an error.
talk_done(t, r) ==
    /\ t_pc[t] = "suspended"
    /\ t_op[t].name = "send_talkreq"
    /\ t_under' = [t_under EXCEPT ![t] = r]
    /\ Return(t, send_talkreq(r))
    /\ UNCHANGED <<t_op, talk_calls, calls_made>>
    /\ UNCHANGED <<routerVars, discVars, ptVars, restVars>>

\* `for node in nodes { self.discv5.add_enr(node).map_err(..)?; }`
RECURSIVE add_found(_, _)
add_found(tbl, nodes) ==
    IF nodes = <<>>
       THEN [res |-> Ok("unit"), table |-> tbl]
       ELSE LET r == add_enr(tbl, Head(nodes))
            IN  IF r.res.ok
                   THEN add_found(r.table, Tail(nodes))
                   ELSE [res |-> Err(<<"Failed to add node to dht", r.res.value>>),
                         table |-> r.table]

\* discover_nodes: a failed lookup is returned as Err; the nodes of a
\* successful one are added one by one up to the first add_enr that fails.
discover_nodes(tbl, lookup) ==
    IF lookup.ok
       THEN add_found(tbl, lookup.value)
       ELSE [res |-> Err(<<"FindNode query failed", lookup.value>>), table |-> tbl]

\* discv5 resumes a suspended discover_nodes with the outcome of the lookup.
discover_done(t, lookup) ==
    /\ t_pc[t] = "suspended"
    /\ t_op[t].name = "discover_nodes"
    /\ table' = discover_nodes(table, lookup).table
    /\ Return(t, discover_nodes(table, lookup).res)
    /\ UNCHANGED <<t_op, t_under, talk_calls, calls_made>>
    /\ UNCHANGED <<d_res, d_cfg, started, service, start_log>>
    /\ UNCHANGED <<routerVars, ptVars, restVars>>

SharedNext ==
    \/ \E t \in Tasks, op \in Ops : Call(t, op)
    \/ \E t \in Tasks : Exec(t)
    \/ \E t \in Tasks : Issue(t)
    \/ \E t \in Tasks, r \in TalkResults : talk_done(t, r)
    \/ \E t \in Tasks, lookup \in Lookups : discover_done(t, lookup)

\* ------------------------------------------------- the peer-test program
\* The strings that can be given as --target_node; "garbage" does not parse
\* as an ENR.
NodeStrs == {"enr_a", "enr_b", "garbage"}

Parses(nodestr) == nodestr # "garbage"

\* The three requests of the loop body, in order, with their arguments.
Rpcs == <<[rpc |-> "Ping", arg |-> "U256::from(u64::MAX)"],
          [rpc |-> "FindNodes", arg |-> "vec![122; 32]"],
          [rpc |-> "FindContent", arg |-> "vec![100; 32]"]>>

PtIdleVars ==
    /\ pt_pc = "start"
    /\ pt_cfg = <<>>
    /\ pt_i = 1
    /\ pt_log = <<>>

\* `PortalnetProtocol::new(portal_config).await.unwrap()` followed by the
\* spawn of the events task.
pt_new(ok) ==
    /\ pt_pc = "start"
    /\ pt_pc' = IF ok THEN "parse" ELSE "panicked_new"
    /\ UNCHANGED <<pt_cfg, pt_i, pt_log>>
    /\ UNCHANGED notPt

\* `target_nodes.iter().map(|nodestr| nodestr.parse().unwrap()).collect()`,
\* then the loop is entered, or skipped when there is no target.
pt_parse ==
    /\ pt_pc = "parse"
    /\ pt_pc' = IF \E i \in 1..Len(pt_cfg) : ~Parses(pt_cfg[i])
                   THEN "panicked_parse"
                   ELSE IF pt_cfg = <<>> THEN "ctrl_c" ELSE "send"
    /\ UNCHANGED <<pt_cfg, pt_i, pt_log>>
    /\ UNCHANGED notPt

\* The number of the request the loop body is at for the current peer.
Stage == (Len(SelectSeq(pt_log, LAMBDA e : e.ev = "done")) % 3) + 1

\* `p2p.send_ping(..)`, `p2p.send_find_nodes(..)` or `p2p.send_find_content(..)`
\* is sent to the current peer and the task suspends on it.
pt_send ==
    /\ pt_pc = "send"
    /\ pt_log' = Append(pt_log, [ev |-> "sent", enr |-> pt_cfg[pt_i],
                                 rpc |-> Rpcs[Stage].rpc, arg |-> Rpcs[Stage].arg])
    /\ pt_pc' = "wait"
    /\ UNCHANGED <<pt_cfg, pt_i>>
    /\ UNCHANGED notPt

\* `.await.unwrap()`: an Ok result is logged and the program goes on to the
\* next request, the next peer, or the wait for ctrl-c; an Err panics.
pt_result(ok) ==
    /\ pt_pc = "wait"
    /\ IF ok
          THEN /\ pt_log' = Append(pt_log, [ev |-> "done", enr |-> pt_cfg[pt_i],
                                            rpc |-> Rpcs[Stage].rpc,
                                            arg |-> Rpcs[Stage].arg])
               /\ pt_i' = IF Stage = 3 THEN pt_i + 1 ELSE pt_i
               /\ pt_pc' = IF Stage = 3 /\ pt_i = Len(pt_cfg) THEN "ctrl_c" ELSE "send"
          ELSE /\ pt_pc' = "panicked_rpc"
               /\ UNCHANGED <<pt_i, pt_log>>
    /\ UNCHANGED pt_cfg
    /\ UNCHANGED notPt

\* `tokio::signal::ctrl_c().await`: the interrupt ends the task.
pt_ctrl_c ==
    /\ pt_pc = "ctrl_c"
    /\ pt_pc' = "exit"
    /\ UNCHANGED <<pt_cfg, pt_i, pt_log>>
    /\ UNCHANGED notPt

PeertestNext ==
    \/ \E ok \in BOOLEAN : pt_new(ok)
    \/ pt_parse
    \/ pt_send
    \/ \E ok \in BOOLEAN : pt_result(ok)
    \/ pt_ctrl_c

\* ------------------------------------------------------ message codec
\* Bitwise exclusive or of two node ids.
RECURSIVE Xor(_, _)
Xor(a, b) ==
    IF a = 0 /\ b = 0
       THEN 0
       ELSE (((a % 2) + (b % 2)) % 2) + 2 * Xor(a \div 2, b \div 2)

RECURSIVE BitLen(_)
BitLen(n) == IF n = 0 THEN 0 ELSE 1 + BitLen(n \div 2)

\* The log-distance of two node ids: the bucket index of their XOR metric.
LogDist(a, b) == BitLen(Xor(a, b))

RECURSIVE Sorted(_)
Sorted(S) ==
    IF S = {}
       THEN <<>>
       ELSE LET lo == CHOOSE x \in S : \A y \in S : x <= y
            IN  <<lo>> \o Sorted(S \ {lo})

Take(q, k) == SubSeq(q, 1, IF Len(q) < k THEN Len(q) ELSE k)

\* decode(bytes): one discriminant byte, then the fields in a fixed order;
\* the distances of FindNodes, the ENRs of Nodes and the key of FindContent
\* are length-delimited.
Decode(p) ==
    IF p = <<>>
       THEN Err("Truncated")
       ELSE CASE p[1] = 1 ->
                   IF Len(p) < 3 THEN Err("Truncated")
                   ELSE IF Len(p) > 3 THEN Err("FieldOutOfRange")
                   ELSE Ok([tag |-> "Ping", enr_seq |-> p[2], data_radius |-> p[3]])
              [] p[1] = 2 ->
                   IF Len(p) < 3 THEN Err("Truncated")
                   ELSE IF Len(p) > 3 THEN Err("FieldOutOfRange")
                   ELSE Ok([tag |-> "Pong", enr_seq |-> p[2], data_radius |-> p[3]])
              [] p[1] = 3 ->
                   IF Len(p) < 2 \/ Len(p) < 2 + p[2] THEN Err("Truncated")
                   ELSE IF Len(p) > 2 + p[2] THEN Err("FieldOutOfRange")
                   ELSE Ok([tag |-> "FindNodes",
                            distances |-> {p[j] : j \in 3..Len(p)}])
              [] p[1] = 4 ->
                   IF Len(p) < 3 \/ Len(p) < 3 + p[3] THEN Err("Truncated")
                   ELSE IF Len(p) > 3 + p[3] THEN Err("FieldOutOfRange")
                   ELSE Ok([tag |-> "Nodes", total |-> p[2],
                            enrs |-> SubSeq(p, 4, Len(p))])
              [] p[1] = 5 ->
                   IF Len(p) < 2 \/ Len(p) < 2 + p[2] THEN Err("Truncated")
                   ELSE IF Len(p) > 2 + p[2] THEN Err("FieldOutOfRange")
                   ELSE Ok([tag |-> "FindContent",
                            content_key |-> SubSeq(p, 3, Len(p))])
              [] OTHER -> Err("UnknownDiscriminant")

\* --------------------------------------------------- inbound dispatcher
Nets == {"state", "history"}

\* The protocol identifier a network owns.
ProtocolId(n) == <<"portal", n>>

\* What a remote peer sends to the state network: a Ping, a FindNodes for
\* distances 0 and 2, a FindContent for a stored key, a Pong, and a FindNodes
\* whose list is shorter than announced.
Payloads == {<<1, 1, 9>>, <<3, 2, 0, 2>>, <<5, 1, 7>>, <<2, 1, 9>>, <<3, 2, 0>>}

\* The same to the state network, a FindContent for an absent key to the
\* history network, and a Ping under a protocol id nobody owns.
Entries ==
    [protocol : {ProtocolId("state")}, payload : Payloads]
        \cup [protocol : {ProtocolId("history")}, payload : {<<5, 1, 4>>}]
        \cup [protocol : {<<"portal", "other">>}, payload : {<<1, 1, 9>>}]

\* The local node of each network: its id, ENR sequence number and radius,
\* its routing table, and its content store.
LocalNode == [id |-> 0, enr_seq |-> 1, data_radius |-> 255]

LocalTable == {1, 2, 3, 6}

ContentStore == [key \in {<<7>>} |-> "stored_value"]

DispIdleVars ==
    /\ inbound = <<>>
    /\ cursor = [n \in Nets |-> 0]
    /\ pending = [n \in Nets |-> {}]
    /\ replies = <<>>

\* A remote peer's TalkRequest arrives on the transport.
Arrive(e) ==
    /\ Len(inbound) < MaxInbound
    /\ inbound' = Append(inbound, e)
    /\ UNCHANGED <<cursor, pending, replies>>
    /\ UNCHANGED notDisp

\* A variant in which a dispatcher takes every entry as its own.
owns_any(n, e) == TRUE

\* The dispatcher of network n ignores an entry of another protocol.
owns(n, e) == e.protocol = ProtocolId(n)

\* A variant that answers an undecodable payload with the error's text.
on_decode_error_reply(n, i, err) == <<[req |-> i, by |-> n, msg |-> [tag |-> err]]>>

\* Decode failure: dropped silently, nothing is sent.
on_decode_error(n, i, err) == <<>>

\* Ping -> Pong with the local sequence number and radius; FindNodes -> Nodes
\* with the table entries at the requested distances, by ascending node id,
\* capped.
respond(msg) ==
    IF msg.tag = "Ping"
       THEN [tag |-> "Pong", enr_seq |-> LocalNode.enr_seq,
             data_radius |-> LocalNode.data_radius]
       ELSE [tag |-> "Nodes",
             enrs |-> Take(Sorted({e \in LocalTable \cup {LocalNode.id} :
                                      LogDist(e, LocalNode.id) \in msg.distances}),
                           MaxNodesReply)]

\* The table entries by ascending XOR distance to the key.
RECURSIVE Closest(_, _)
Closest(S, key) ==
    IF S = {}
       THEN <<>>
       ELSE LET lo == CHOOSE x \in S :
                         \A y \in S : Xor(x, key) <= Xor(y, key)
            IN  <<lo>> \o Closest(S \ {lo}, key)

\* FindContent: a hit is answered with the payload, a miss with the closest
\* known peers.
content_reply(key) ==
    IF key \in DOMAIN ContentStore
       THEN [tag |-> "Content", kind |-> "Payload", payload |-> ContentStore[key]]
       ELSE [tag |-> "Content", kind |-> "Enrs",
             enrs |-> Take(Closest(LocalTable, key[1]), MaxNodesReply)]

\* A variant of the dispatcher that reads on only when no lookup is under way.
can_pull_sequential(n) == cursor[n] < Len(inbound) /\ pending[n] = {}

\* The dispatcher reads on whenever the stream holds an entry it has not seen.
can_pull(n) == cursor[n] < Len(inbound)

\* One turn of the dispatcher of network n: the next entry is pulled, ignored
\* when it is of another protocol, dropped when it does not decode or is no
\* request, answered at once when it is a Ping or a FindNodes, and handed to
\* the content store when it is a FindContent.
pull(n) ==
    /\ can_pull(n)
    /\ LET i == cursor[n] + 1
           e == inbound[i]
           d == Decode(e.payload)
       IN  /\ cursor' = [cursor EXCEPT ![n] = i]
           /\ IF ~owns(n, e)
                 THEN UNCHANGED <<pending, replies>>
                 ELSE IF ~d.ok
                         THEN /\ replies' = replies \o on_decode_error(n, i, d.value)
                              /\ UNCHANGED pending
                         ELSE IF d.value.tag \in {"Ping", "FindNodes"}
                                 THEN /\ replies' = Append(replies,
                                              [req |-> i, by |-> n,
                                               msg |-> respond(d.value)])
                                      /\ UNCHANGED pending
                                 ELSE IF d.value.tag = "FindContent"
                                         THEN /\ pending' = [pending EXCEPT
                                                               ![n] = @ \cup {i}]
                                              /\ UNCHANGED replies
                                         ELSE UNCHANGED <<pending, replies>>
    /\ UNCHANGED inbound
    /\ UNCHANGED notDisp

\* A variant in which the finished lookup is forgotten without a reply.
lookup_done_silent(n, i) ==
    /\ i \in pending[n]
    /\ pending' = [pending EXCEPT ![n] = @ \ {i}]
    /\ UNCHANGED <<inbound, cursor, replies>>
    /\ UNCHANGED notDisp

\* The content store answers the lookup of request i and the Content reply is
\* sent.
lookup_done(n, i) ==
    /\ i \in pending[n]
    /\ pending' = [pending EXCEPT ![n] = @ \ {i}]
    /\ replies' = Append(replies,
                         [req |-> i, by |-> n,
                          msg |-> content_reply(Decode(inbound[i].payload)
                                                   .value.content_key)])
    /\ UNCHANGED <<inbound, cursor>>
    /\ UNCHANGED notDisp

DispatcherNext ==
    \/ \E e \in Entries : Arrive(e)
    \/ \E n \in Nets : pull(n)
    \/ \E n \in Nets, i \in 1..MaxInbound : lookup_done(n, i)

\* --------------------------------------------------- overlay protocol engine
\* Node ids, three bits wide here.
NodeIds == 0..7

\* encode(FindNodes{distances}): discriminant, count, the distances ascending.
EncodeFindNodes(distances) == <<3, Cardinality(distances)>> \o Sorted(distances)

\* What can come back for one FindNodes: a Nodes message with any ENRs the
\* remote peer cares to put in it, a Nodes message cut short, a Pong, or a
\* transport failure.
FindNodesReplies ==
    {Ok(<<4, 1, Len(q)>> \o q) : q \in SeqsUpTo(NodeIds, MaxNodesReply)}
        \cup {Ok(<<4, 1, 2, 3>>), Ok(<<2, 1, 9>>), Err("Timeout")}

DistanceSets == {{}, {0}, {1, 2}, {3}}

EngIdleVars ==
    /\ fn_pc = "idle"
    /\ fn_args = [distances |-> {}, enr |-> 0]
    /\ fn_sent = <<>>
    /\ fn_ret = NoRet

\* A variant that returns the reply's ENRs as they came.
filter_nodes_unchecked(distances, remote, enrs) == enrs

\* Every ENR of the reply is checked on its own: it is kept when its
\* log-distance to the remote peer is one of the requested ones.
filter_nodes(distances, remote, enrs) ==
    SelectSeq(enrs, LAMBDA e : LogDist(e, remote) \in distances)

\* The result of send_find_nodes for the outcome r of the talk request.
find_nodes_result(distances, remote, r) ==
    IF ~r.ok
       THEN Err(<<"Transport", r.value>>)
       ELSE LET d == Decode(r.value)
            IN  IF ~d.ok
                   THEN Err(<<"Codec", d.value>>)
                   ELSE IF d.value.tag # "Nodes"
                           THEN Err("UnexpectedMessageType")
                           ELSE Ok([tag |-> "Nodes", total |-> d.value.total,
                                    enrs |-> filter_nodes(distances, remote,
                                                          d.value.enrs)])

\* send_find_nodes(distances, enr): the request goes out and the call suspends.
send_find_nodes(distances, enr) ==
    /\ fn_pc = "idle"
    /\ fn_args' = [distances |-> distances, enr |-> enr]
    /\ fn_sent' = EncodeFindNodes(distances)
    /\ fn_pc' = "sent"
    /\ UNCHANGED fn_ret
    /\ UNCHANGED notEng

\* The talk request completes with r and send_find_nodes returns.
find_nodes_done(r) ==
    /\ fn_pc = "sent"
    /\ fn_ret' = [reply |-> r,
                  result |-> find_nodes_result(fn_args.distances, fn_args.enr, r)]
    /\ fn_pc' = "returned"
    /\ UNCHANGED <<fn_args, fn_sent>>
    /\ UNCHANGED notEng

EngineNext ==
    \/ \E ds \in DistanceSets, enr \in {0, 5} : send_find_nodes(ds, enr)
    \/ \E r \in FindNodesReplies : find_nodes_done(r)

\* ------------------------------------------------------- block header codec
\* An RLP list is the sequence of its items, an item the sequence of its
\* payload bytes; the framing of items into bytes is the rlp crate's.
LONDON_BLOCK_NUMBER == 12965000

Some(v) == [some |-> TRUE, value |-> v]

NoneHash == [some |-> FALSE, value |-> <<>>]

NoneInt == [some |-> FALSE, value |-> 0]

\* The 13 fields every encoding starts with, in the order of stream_rlp.
BaseFields == <<"parent_hash", "uncles_hash", "author", "state_root",
                "transactions_root", "receipts_root", "log_bloom",
                "difficulty", "number", "gas_limit", "gas_used", "timestamp",
                "extra_data">>

\* The Rust type of each field of Header.
Kind(f) ==
    CASE f \in {"parent_hash", "uncles_hash", "state_root", "transactions_root",
                "receipts_root", "mix_hash"} -> "H256"
      [] f = "author" -> "H160"
      [] f = "log_bloom" -> "Bloom"
      [] f \in {"difficulty", "gas_limit", "gas_used", "base_fee_per_gas"} -> "U256"
      [] f \in {"number", "timestamp", "nonce"} -> "u64"
      [] OTHER -> "bytes"

\* The size in bytes of a value of each fixed-size type.
Width(kind) ==
    CASE kind = "H256" -> 32
      [] kind = "H160" -> 20
      [] kind = "Bloom" -> 256
      [] kind = "U256" -> 32
      [] OTHER -> 8

\* Big-endian bytes of n without leading zeros; zero is the empty string.
RECURSIVE EncodeUint(_)
EncodeUint(n) == IF n = 0 THEN <<>> ELSE Append(EncodeUint(n \div 256), n % 256)

RECURSIVE DecodeUint(_)
DecodeUint(bs) ==
    IF bs = <<>> THEN 0 ELSE 256 * DecodeUint(SubSeq(bs, 1, Len(bs) - 1)) + Last(bs)

\* Encodable for the field types: hashes and byte vectors as they are,
\* integers in their shortest form.
encode_field(kind, v) == IF kind \in {"U256", "u64"} THEN EncodeUint(v) ELSE v

\* Decodable for the field types: a hash must have its exact size, an integer
\* must fit its type and must not start with a zero byte, a byte vector is
\* taken as it is.
decode_field(kind, item) ==
    CASE kind \in {"H256", "H160", "Bloom"} ->
            IF Len(item) < Width(kind) THEN Err("RlpIsTooShort")
            ELSE IF Len(item) > Width(kind) THEN Err("RlpIsTooBig")
            ELSE Ok(item)
      [] kind \in {"U256", "u64"} ->
            IF Len(item) > Width(kind) THEN Err("RlpIsTooBig")
            ELSE IF item # <<>> /\ item[1] = 0 THEN Err("RlpInvalidIndirection")
            ELSE Ok(DecodeUint(item))
      [] OTHER -> Ok(item)

\* rlp.val_at(index): the item at the 0-based index, decoded as kind.
val_at(items, index, kind) ==
    IF index + 1 > Len(items)
       THEN Err("RlpIsTooShort")
       ELSE decode_field(kind, items[index + 1])

\* A variant of stream_rlp that appends the base fee before the seal.
stream_rlp_fee_first(h, with_seal) ==
    LET stream_length_without_seal == IF h.base_fee_per_gas.some THEN 14 ELSE 13
        sealed == with_seal /\ h.mix_hash.some /\ h.nonce.some
    IN  [declared |-> IF sealed THEN stream_length_without_seal + 2
                                ELSE stream_length_without_seal,
         items |-> [i \in 1..13 |-> encode_field(Kind(BaseFields[i]), h[BaseFields[i]])]
                      \o (IF h.base_fee_per_gas.some
                             THEN <<encode_field("U256", h.base_fee_per_gas.value)>>
                             ELSE <<>>)
                      \o (IF sealed
                             THEN <<encode_field("H256", h.mix_hash.value),
                                    encode_field("u64", h.nonce.value)>>
                             ELSE <<>>)]

\* A variant of stream_rlp whose declared length forgets the base fee.
stream_rlp_short_list(h, with_seal) ==
    LET stream_length_without_seal == 13
        sealed == with_seal /\ h.mix_hash.some /\ h.nonce.some
    IN  [declared |-> IF sealed THEN stream_length_without_seal + 2
                                ELSE stream_length_without_seal,
         items |-> [i \in 1..13 |-> encode_field(Kind(BaseFields[i]), h[BaseFields[i]])]
                      \o (IF sealed
                             THEN <<encode_field("H256", h.mix_hash.value),
                                    encode_field("u64", h.nonce.value)>>
                             ELSE <<>>)
                      \o (IF h.base_fee_per_gas.some
                             THEN <<encode_field("U256", h.base_fee_per_gas.value)>>
                             ELSE <<>>)]

\* Header::stream_rlp(s, with_seal): the length given to begin_list and the
\* items appended after it.
stream_rlp(h, with_seal) ==
    LET stream_length_without_seal == IF h.base_fee_per_gas.some THEN 14 ELSE 13
        sealed == with_seal /\ h.mix_hash.some /\ h.nonce.some
    IN  [declared |-> IF sealed THEN stream_length_without_seal + 2
                                ELSE stream_length_without_seal,
         items |-> [i \in 1..13 |-> encode_field(Kind(BaseFields[i]), h[BaseFields[i]])]
                      \o (IF sealed
                             THEN <<encode_field("H256", h.mix_hash.value),
                                    encode_field("u64", h.nonce.value)>>
                             ELSE <<>>)
                      \o (IF h.base_fee_per_gas.some
                             THEN <<encode_field("U256", h.base_fee_per_gas.value)>>
                             ELSE <<>>)]

\* The header built from the first 15 items, all of which decode.
HeaderOf(items) ==
    [f \in {BaseFields[i] : i \in 1..13} |->
        val_at(items, (CHOOSE i \in 1..13 : BaseFields[i] = f) - 1, Kind(f)).value]
      @@ [mix_hash |-> Some(val_at(items, 13, "H256").value),
          nonce |-> Some(val_at(items, 14, "u64").value),
          base_fee_per_gas |-> NoneInt]

\* The error of the first of the first 15 items that does not decode.
FirstError(items) ==
    LET FieldAt(i) == IF i <= 13 THEN BaseFields[i]
                      ELSE IF i = 14 THEN "mix_hash" ELSE "nonce"
        bad == {i \in 1..15 : ~val_at(items, i - 1, Kind(FieldAt(i))).ok}
        i0 == CHOOSE i \in bad : \A j \in bad : i <= j
    IN  IF bad = {} THEN Ok("none")
        ELSE Err(val_at(items, i0 - 1, Kind(FieldAt(i0))).value)

\* A variant of decode that reads the base fee only after the London block.
decode_after_london(items) ==
    IF ~FirstError(items).ok
       THEN FirstError(items)
       ELSE LET header == HeaderOf(items)
            IN  IF header.number > LONDON_BLOCK_NUMBER
                   THEN LET fee == val_at(items, 15, "U256")
                        IN  IF fee.ok
                               THEN Ok([header EXCEPT
                                          !.base_fee_per_gas = Some(fee.value)])
                               ELSE fee
                   ELSE Ok(header)

\* <Header as Decodable>::decode: items 0 to 14 with `?` each, then item 15 as
\* the base fee when the number is at or past the London block.
decode(items) ==
    IF ~FirstError(items).ok
       THEN FirstError(items)
       ELSE LET header == HeaderOf(items)
            IN  IF header.number >= LONDON_BLOCK_NUMBER
                   THEN LET fee == val_at(items, 15, "U256")
                        IN  IF fee.ok
                               THEN Ok([header EXCEPT
                                          !.base_fee_per_gas = Some(fee.value)])
                               ELSE fee
                   ELSE Ok(header)

\* A value of a fixed-size type with every byte equal to b.
Fill(b, kind) == [i \in 1..Width(kind) |-> b]

TemplateHeader ==
    [parent_hash |-> Fill(170, "H256"), uncles_hash |-> Fill(29, "H256"),
     author |-> Fill(136, "H160"), state_root |-> Fill(3, "H256"),
     transactions_root |-> Fill(4, "H256"), receipts_root |-> Fill(5, "H256"),
     log_bloom |-> Fill(0, "Bloom"), difficulty |-> 5, number |-> 0,
     gas_limit |-> 8000, gas_used |-> 0, timestamp |-> 1000,
     extra_data |-> <<>>, mix_hash |-> Some(Fill(187, "H256")),
     nonce |-> Some(9), base_fee_per_gas |-> NoneInt]

\* The headers handed to the encoder: around the London block, with and
\* without seal fields and base fee.
Headers ==
    {[TemplateHeader EXCEPT !.difficulty = d, !.number = n, !.extra_data = x,
                            !.mix_hash = m, !.nonce = c,
                            !.base_fee_per_gas = b] :
        d \in {0, 5, 256},
        n \in {0, LONDON_BLOCK_NUMBER - 1, LONDON_BLOCK_NUMBER,
               LONDON_BLOCK_NUMBER + 1},
        x \in {<<>>, <<0>>, <<1, 2>>},
        m \in {NoneHash, Some(Fill(187, "H256"))},
        c \in {NoneInt, Some(0), Some(9), Some(300)},
        b \in {NoneInt, Some(0), Some(7)}}

\* The 13 base items of the lists handed to the decoder: well-formed ones and
\* ones with a short hash or an integer with a leading zero byte.
BaseItemLists ==
    {[[i \in 1..13 |-> encode_field(Kind(BaseFields[i]),
                                    TemplateHeader[BaseFields[i]])]
         EXCEPT ![1] = ph, ![8] = d, ![9] = n, ![13] = x] :
        ph \in {Fill(170, "H256"), [i \in 1..31 |-> 170]},
        d \in {<<>>, <<5>>, <<0, 5>>},
        n \in {<<>>, <<0, 1>>, <<197, 212, 135>>, <<197, 212, 136>>,
               <<197, 212, 137>>},
        x \in {<<>>, <<0>>}}

NonceItems == {<<>>, <<9>>, <<0, 9>>, [i \in 1..9 |-> 1]}

FeeItems == {<<>>, <<7>>, <<0, 7>>}

\* What follows the base items: nothing, the mix hash alone, the seal, the
\* seal and a base fee, or the seal, a base fee and one item more.
Tails ==
    {<<>>, <<Fill(187, "H256")>>}
        \cup {<<Fill(187, "H256"), c>> : c \in NonceItems}
        \cup {<<Fill(187, "H256"), c, f>> : c \in NonceItems, f \in FeeItems}
        \cup {<<Fill(187, "H256"), c, f, <<1>>>> : c \in NonceItems, f \in FeeItems}

ItemLists == {b \o t : b \in BaseItemLists, t \in Tails}

NoStream == [declared |-> 0, items |-> <<>>]

\* The placeholder held while no header has been given to the encoder.
NoHeader ==
    [f \in {BaseFields[i] : i \in 1..13} |->
        IF Kind(f) \in {"U256", "u64"} THEN 0 ELSE <<>>]
      @@ [mix_hash |-> NoneHash, nonce |-> NoneInt, base_fee_per_gas |-> NoneInt]

HdrIdleVars ==
    /\ hc_pc = "start"
    /\ hc_bytes = <<>>
    /\ hc_hdr = NoHeader
    /\ hc_seal = FALSE
    /\ hc_stream = NoStream
    /\ hc_dec = NoRet

\* Bytes of a header arrive and are given to rlp::decode.
rlp_decode(items) ==
    /\ hc_pc = "start"
    /\ hc_bytes' = items
    /\ hc_dec' = decode(items)
    /\ hc_pc' = IF decode(items).ok THEN "decoded" ELSE "rejected"
    /\ UNCHANGED <<hc_hdr, hc_seal, hc_stream>>
    /\ UNCHANGED notHdr

\* rlp::encode(&header) of the decoded header: rlp_append is
\* stream_rlp(s, true).
rlp_append ==
    /\ hc_pc = "decoded"
    /\ hc_stream' = stream_rlp(hc_dec.value, TRUE)
    /\ hc_seal' = TRUE
    /\ hc_pc' = "reencoded"
    /\ UNCHANGED <<hc_bytes, hc_hdr, hc_dec>>
    /\ UNCHANGED notHdr

\* header.rlp(with_seal) of a header built in the program.
Header_rlp(h, with_seal) ==
    /\ hc_pc = "start"
    /\ hc_hdr' = h
    /\ hc_seal' = with_seal
    /\ hc_stream' = stream_rlp(h, with_seal)
    /\ hc_pc' = "encoded"
    /\ UNCHANGED <<hc_bytes, hc_dec>>
    /\ UNCHANGED notHdr

\* The encoding is decoded again.  A stream whose list was not filled as
\* declared gives no bytes: RlpStream::out panics.
decode_encoded ==
    /\ hc_pc = "encoded"
    /\ IF hc_stream.declared = Len(hc_stream.items)
          THEN /\ hc_bytes' = hc_stream.items
               /\ hc_dec' = decode(hc_stream.items)
               /\ hc_pc' = "redecoded"
          ELSE /\ hc_pc' = "panicked"
               /\ UNCHANGED <<hc_bytes, hc_dec>>
    /\ UNCHANGED <<hc_hdr, hc_seal, hc_stream>>
    /\ UNCHANGED notHdr

HeaderNext ==
    \/ \E items \in ItemLists : rlp_decode(items)
    \/ rlp_append
    \/ \E h \in Headers, with_seal \in BOOLEAN : Header_rlp(h, with_seal)
    \/ decode_encoded

\* ------------------------------------------------------- trin-state main
\* TrinConfig::new(): the bootnode strings and the private key of the command
\* line.
TrinConfigs == [bootnodes : SeqsUpTo(NodeStrs, MaxBootnodes),
                private_key : KeyMaterial]

StartupFailures == {"parse", "identity", "bind", "network"}

SmIdleVars ==
    /\ sm_pc = "off"
    /\ sm_cfg = [bootnodes |-> <<>>, private_key |-> "absent"]
    /\ sm_log = <<>>
    /\ sm_fail = "none"
    /\ proc = "running"
    /\ sigint = FALSE
    /\ ev_pc = "unspawned"

\* A variant of the bootnode parsing that skips the strings that do not parse.
sm_parse_skips_bad ==
    /\ proc = "running"
    /\ sm_pc = "parse"
    /\ sm_pc' = "new"
    /\ UNCHANGED <<sm_cfg, sm_log, sm_fail, proc, sigint, ev_pc>>
    /\ UNCHANGED notSm

\* `trin_config.bootnodes.iter().map(|nodestr| nodestr.parse().unwrap())
\* .collect()`: every string is parsed before anything else is built.
sm_parse ==
    /\ proc = "running"
    /\ sm_pc = "parse"
    /\ IF \E i \in 1..Len(sm_cfg.bootnodes) : ~Parses(sm_cfg.bootnodes[i])
          THEN sm_pc' = "panicked" /\ sm_fail' = "parse"
          ELSE sm_pc' = "new" /\ sm_fail' = sm_fail
    /\ UNCHANGED <<sm_cfg, sm_log, proc, sigint, ev_pc>>
    /\ UNCHANGED notSm

\* `Discovery::new(portalnet_config.clone()).unwrap()`: the panic inside new
\* and the unwrap of a returned Err both end main.
sm_new(discv5_new_ok) ==
    /\ proc = "running"
    /\ sm_pc = "new"
    /\ LET r == add_bootnodes({}, sm_cfg.bootnodes)
       IN  IF sm_cfg.private_key = "malformed" \/ ~discv5_new_ok \/ ~r.res.ok
              THEN sm_pc' = "panicked" /\ sm_fail' = "identity"
              ELSE sm_pc' = "start" /\ sm_fail' = sm_fail
    /\ UNCHANGED <<sm_cfg, sm_log, proc, sigint, ev_pc>>
    /\ UNCHANGED notSm

\* `discovery.start().await.unwrap()`
sm_start(bind_ok) ==
    /\ proc = "running"
    /\ sm_pc = "start"
    /\ IF discv5_start(FALSE, bind_ok).res.ok
          THEN sm_pc' = "network_new" /\ sm_fail' = sm_fail
          ELSE sm_pc' = "panicked" /\ sm_fail' = "bind"
    /\ UNCHANGED <<sm_cfg, sm_log, proc, sigint, ev_pc>>
    /\ UNCHANGED notSm

\* The spawned task begins with
\* `StateNetwork::new(discovery, db, portalnet_config).await.unwrap()`; its
\* panic reaches main through `.await.unwrap()` on the join handle.
sm_network_new(ok) ==
    /\ proc = "running"
    /\ sm_pc = "network_new"
    /\ IF ok
          THEN sm_pc' = "spawn_events" /\ sm_fail' = sm_fail
          ELSE sm_pc' = "panicked" /\ sm_fail' = "network"
    /\ UNCHANGED <<sm_cfg, sm_log, proc, sigint, ev_pc>>
    /\ UNCHANGED notSm

\* `tokio::spawn(events.process_discv5_requests())`: the join handle is
\* dropped, the task is detached.
sm_spawn_events ==
    /\ proc = "running"
    /\ sm_pc = "spawn_events"
    /\ ev_pc' = "running"
    /\ sm_pc' = "ping"
    /\ UNCHANGED <<sm_cfg, sm_log, sm_fail, proc, sigint>>
    /\ UNCHANGED notSm

\* `p2p.ping_bootnodes()`: a Ping goes out to every bootnode.
sm_ping_bootnodes ==
    /\ proc = "running"
    /\ sm_pc = "ping"
    /\ sm_log' = [i \in 1..Len(sm_cfg.bootnodes) |->
                      [rpc |-> "Ping", enr |-> sm_cfg.bootnodes[i]]]
    /\ sm_pc' = "ping_wait"
    /\ UNCHANGED <<sm_cfg, sm_fail, proc, sigint, ev_pc>>
    /\ UNCHANGED notSm

\* `.await.unwrap()` on ping_bootnodes, then `tokio::signal::ctrl_c()`
\* registers the listener and the task waits on it.
sm_ping_result(ok) ==
    /\ proc = "running"
    /\ sm_pc = "ping_wait"
    /\ IF ok
          THEN sm_pc' = "ctrl_c" /\ sm_fail' = sm_fail
          ELSE sm_pc' = "panicked" /\ sm_fail' = "ping"
    /\ UNCHANGED <<sm_cfg, sm_log, proc, sigint, ev_pc>>
    /\ UNCHANGED notSm

\* `tokio::signal::ctrl_c().await.expect(..)` resolves once the listener has
\* seen the signal; the task ends and main returns Ok(()).
sm_ctrl_c ==
    /\ proc = "running"
    /\ sm_pc = "ctrl_c"
    /\ sigint
    /\ sm_pc' = "returned"
    /\ UNCHANGED <<sm_cfg, sm_log, sm_fail, proc, sigint, ev_pc>>
    /\ UNCHANGED notSm

\* The interrupt signal reaches the process.  Before ctrl_c() has registered
\* its listener the signal has its default disposition and ends the process
\* with every task in it; afterwards it only wakes the listener.
Interrupt ==
    /\ proc = "running"
    /\ ~sigint
    /\ sm_pc \notin {"off", "returned", "panicked"}
    /\ IF sm_pc = "ctrl_c"
          THEN sigint' = TRUE /\ UNCHANGED <<proc, ev_pc>>
          ELSE /\ proc' = "killed"
               /\ ev_pc' = IF ev_pc = "running" THEN "dropped" ELSE ev_pc
               /\ UNCHANGED sigint
    /\ UNCHANGED <<sm_pc, sm_cfg, sm_log, sm_fail>>
    /\ UNCHANGED notSm

\* main has returned or unwound: the runtime shuts down and drops the tasks
\* still on it.
Shutdown ==
    /\ proc = "running"
    /\ sm_pc \in {"returned", "panicked"}
    /\ proc' = "exited"
    /\ ev_pc' = IF ev_pc = "running" THEN "dropped" ELSE ev_pc
    /\ UNCHANGED <<sm_pc, sm_cfg, sm_log, sm_fail, sigint>>
    /\ UNCHANGED notSm

\* The endpoint router of the network and its one caller, on the runtime of
\* the process for as long as the process runs.
Background ==
    /\ proc = "running"
    /\ sm_pc # "off"
    /\ \/ \E c \in CmdIds, k \in StateEndpointKind : SendCommand("rpc", c, k)
       \/ recv
       \/ match_kind

RestIdleVars == SmIdleVars /\ DispIdleVars /\ EngIdleVars /\ HdrIdleVars

StateMainNext ==
    \/ sm_parse
    \/ \E ok \in BOOLEAN : sm_new(ok)
    \/ \E ok \in BOOLEAN : sm_start(ok)
    \/ \E ok \in BOOLEAN : sm_network_new(ok)
    \/ sm_spawn_events
    \/ sm_ping_bootnodes
    \/ \E ok \in BOOLEAN : sm_ping_result(ok)
    \/ sm_ctrl_c
    \/ Interrupt
    \/ Shutdown
    \/ Background

\* --------------------------------------------------------- specifications
RouterInit ==
    RouterInitVars /\ DiscInitVars /\ LockIdleVars /\ PtIdleVars /\ RestIdleVars

DiscoveryInit ==
    RouterInitVars /\ DiscInitVars /\ LockIdleVars /\ PtIdleVars /\ RestIdleVars

SharedInit ==
    RouterInitVars /\ DiscReadyVars /\ LockIdleVars /\ PtIdleVars /\ RestIdleVars

\* PeertestConfig::default() reads the targets from the command line.
PeertestInit ==
    /\ RouterInitVars /\ DiscInitVars /\ LockIdleVars /\ RestIdleVars
    /\ pt_pc = "start"
    /\ pt_cfg \in SeqsUpTo(NodeStrs, MaxTargets)
    /\ pt_i = 1
    /\ pt_log = <<>>

\* One of the two programs is started: trin-state with its TrinConfig, or the
\* peer tester with its PeertestConfig.
ProcessInit ==
    /\ RouterInitVars /\ DiscInitVars /\ LockIdleVars
    /\ \/ /\ pt_pc = "off"
          /\ pt_cfg = <<>>
          /\ pt_i = 1
          /\ pt_log = <<>>
          /\ sm_pc = "parse"
          /\ sm_cfg \in TrinConfigs
       \/ /\ pt_pc = "start"
          /\ pt_cfg \in SeqsUpTo(NodeStrs, MaxTargets)
          /\ pt_i = 1
          /\ pt_log = <<>>
          /\ sm_pc = "off"
          /\ sm_cfg = [bootnodes |-> <<>>, private_key |-> "absent"]
    /\ sm_log = <<>>
    /\ sm_fail = "none"
    /\ proc = "running"
    /\ sigint = FALSE
    /\ ev_pc = "unspawned"
    /\ DispIdleVars
    /\ EngIdleVars
    /\ HdrIdleVars

DispatcherInit ==
    RouterInitVars /\ DiscInitVars /\ LockIdleVars /\ PtIdleVars /\ RestIdleVars

RouterSpec == RouterInit /\ [][RouterNext]_vars

\* The runtime keeps polling a ready consumer task, and a waiting caller keeps
\* polling its slot.
RouterFairSpec ==
    /\ RouterInit
    /\ [][RouterNext]_vars
    /\ WF_vars(recv)
    /\ WF_vars(match_kind)
    /\ \A c \in CmdIds : WF_vars(CallerObserve(c))

DiscoverySpec == DiscoveryInit /\ [][DiscoveryNext]_vars

SharedSpec == SharedInit /\ [][SharedNext]_vars

PeertestSpec == PeertestInit /\ [][PeertestNext]_vars

EngineInit ==
    RouterInitVars /\ DiscInitVars /\ LockIdleVars /\ PtIdleVars /\ RestIdleVars

HeaderInit ==
    RouterInitVars /\ DiscInitVars /\ LockIdleVars /\ PtIdleVars /\ RestIdleVars

HeaderSpec == HeaderInit /\ [][HeaderNext]_vars

EngineSpec == EngineInit /\ [][EngineNext]_vars

DispatcherSpec == DispatcherInit /\ [][DispatcherNext]_vars

\* The runtime keeps polling the dispatchers while one of them has an entry
\* to read; nothing is promised about the content store, a lookup may stay
\* pending for as long as it likes.
DispatcherSlowSpec ==
    /\ DispatcherInit
    /\ [][DispatcherNext]_vars
    /\ WF_vars(\E n \in Nets : pull(n))

ProcessSpec == ProcessInit /\ [][PeertestNext \/ StateMainNext]_vars

\* ------------------------------------------------------- claims: the router
Dequeued == Range(deq_log)

\* The send on a command's reply slot failed: it was called and delivered
\* nothing.
SendFailed(c) == resp_sends[c] = 1 /\ resp_val[c] = <<>>

\* C1: every command the consumer task has dequeued gets exactly one send on
\* its reply slot, never zero and never two, and that send happens before the
\* next command is dequeued: at any moment the only dequeued command without
\* its send is the one the loop body is holding, which is the last one
\* dequeued; nothing is sent for a command that was not dequeued.
C1_ExactlyOneReply ==
    /\ \A c \in CmdIds :
          /\ resp_sends[c] <= 1
          /\ Len(resp_val[c]) <= resp_sends[c]
          /\ c \in Dequeued =>
                resp_sends[c] = IF h_pc = "match" /\ h_cmd = c THEN 0 ELSE 1
          /\ c \notin Dequeued => resp_sends[c] = 0
    /\ h_pc = "match" => h_cmd = Last(deq_log)
    /\ \A i, j \in 1..Len(deq_log) : deq_log[i] = deq_log[j] => i = j

\* Two commands were dequeued, the first was answered with the mock value
\* before the second was taken.
C1_Witness ==
    /\ Len(deq_log) >= 2
    /\ resp_sends[deq_log[1]] = 1
    /\ resp_val[deq_log[1]] = <<MockStateData>>
    /\ h_pc = "match"
    /\ h_cmd = deq_log[2]

\* C2: commands are dequeued, and their replies produced, in the order their
\* enqueues completed, whichever producer enqueued them.
C2_Fifo ==
    /\ IsPrefix(deq_log, enq_log)
    /\ IsPrefix(reply_log, enq_log)
    /\ \A i, j \in 1..Len(enq_log) :
          (i < j /\ enq_log[j] \in Dequeued) => resp_sends[enq_log[i]] = 1

\* Two commands of different producers sat in the queue together and both
\* were answered.
C2_Witness ==
    /\ Len(reply_log) >= 2
    /\ cmd_of[reply_log[1]].from # cmd_of[reply_log[2]].from
    /\ Len(deq_log) = 2
    /\ Len(state_rx) >= 1

\* C3: once the consumer task has stopped or been dropped, no reply slot is
\* left with a live sending half, and every caller still waiting on a slot
\* gets to see it closed (or answered) instead of waiting forever.
C3_TeardownCancels ==
    /\ [](h_pc \in {"dropped", "exited"} => \A c \in CmdIds : resp_tx[c] # "live")
    /\ \A c \in CmdIds :
          (h_pc \in {"dropped", "exited"} /\ caller[c] = "waiting")
             ~> (caller[c] \in {"cancelled", "replied", "abandoned"})

\* The task was dropped with a command still queued, and its caller saw the
\* slot closed without any send.
C3_Witness ==
    /\ h_pc = "dropped"
    /\ \E c \in CmdIds :
          /\ caller[c] = "cancelled"
          /\ resp_sends[c] = 0
          /\ c \notin Dequeued

\* C4: a failed send does not stop the consumer task: every queued command is
\* still dequeued and gets its send, unless the task itself is torn down.
C4_FailureIsolated ==
    \A c \in CmdIds :
        (c \in Range(state_rx)) ~> (resp_sends[c] = 1 \/ h_pc = "dropped")

\* The send for one command failed because its caller had dropped the slot,
\* and a command queued behind it was answered.
C4_Witness ==
    \E c1, c2 \in CmdIds :
        /\ c1 < c2
        /\ SendFailed(c1)
        /\ caller[c1] = "abandoned"
        /\ resp_val[c2] = <<MockStateData>>
        /\ h_pc = "recv"

\* ----------------------------------------------- claims: discovery adapter
AlreadyStarted == Err(<<"Failed to start discv5 server", "ServiceAlreadyStarted">>)

\* C5: every call of Discovery::start made after a successful start returns
\* the same explicit already-started error and leaves the adapter started
\* with its service running; a start that fails leaves `started` as it was;
\* once a start has succeeded the adapter stays started.
C5_DoubleStart ==
    /\ \A i \in 1..Len(start_log) :
          /\ start_log[i].before =>
                /\ start_log[i].ret = AlreadyStarted
                /\ start_log[i].after
                /\ start_log[i].running
          /\ ~start_log[i].ret.ok => start_log[i].after = start_log[i].before
          /\ start_log[i].ret.ok => start_log[i].after
    /\ (\E i \in 1..Len(start_log) : start_log[i].ret.ok) => started /\ service

\* A start succeeded and two more calls followed it.
C5_Witness ==
    /\ Len(start_log) >= 3
    /\ start_log[1].ret.ok
    /\ start_log[2].ret = AlreadyStarted
    /\ start_log[3].ret = AlreadyStarted
    /\ started

\* C6: Discovery::new returns an error, without aborting and without
\* producing an adapter, when the key material is malformed or a bootstrap ENR
\* cannot be registered; when it returns Ok every bootstrap ENR is in the
\* routing table and the adapter is not started.
C6_NewReturnsError ==
    d_res # "none" =>
        /\ d_res \in {"ok", "err"}
        /\ d_cfg.private_key = "malformed" => d_res = "err"
        /\ (\E i \in 1..Len(d_cfg.bootnode_enrs) : d_cfg.bootnode_enrs[i] \in Refused)
              => d_res = "err"
        /\ d_res = "ok" =>
              /\ Range(d_cfg.bootnode_enrs) \subseteq table
              /\ start_log = <<>> => ~started
        /\ d_res # "ok" => table = {}

\* ------------------------------------------------- claims: shared adapter
Holding(u) == u \in rw_readers \/ u = rw_writer

Ahead(u, t) ==
    \E i, j \in 1..Len(rw_queue) : i < j /\ rw_queue[i] = u /\ rw_queue[j] = t

\* C7: a task calling a read of the routing table (connected_peers or a
\* lookup) never waits for the lock unless a write (discover_nodes, the only
\* caller of add_enr here) holds it or waits ahead of it: reads never block
\* each other.
C7_ReadsNeverBlock ==
    \A t \in Tasks :
        (t_pc[t] = "queued"
            /\ t_op[t].name \in {"connected_peers", "connected_peers_len", "local_enr"})
        => \E u \in Tasks \ {t} :
              /\ Holding(u) \/ Ahead(u, t)
              /\ t_op[u].name = "discover_nodes"

TalkTo(t, pc) == t_pc[t] = pc /\ t_op[t].name = "send_talkreq"

\* C8: while one talk request is suspended waiting for its reply, a task
\* issuing a talk request to a different peer does not have to wait.
C8_TalkNeverWaits ==
    \A t1, t2 \in Tasks :
        (TalkTo(t1, "suspended") /\ TalkTo(t2, "queued"))
        => t_op[t1].enr = t_op[t2].enr

\* What does hold: a task issuing a talk request waits for the lock only when
\* a `&mut self` method (connected_peers, discover_nodes) holds it or waits
\* ahead of it; another talk request alone never makes it wait.
TalkWaitsOnlyForExclusive ==
    \A t \in Tasks :
        TalkTo(t, "queued")
        => \E u \in Tasks \ {t} :
              /\ Holding(u) \/ Ahead(u, t)
              /\ t_op[u].name \in {"connected_peers", "discover_nodes"}

\* One task got the reply of its talk request to one peer while another
\* task's talk request to a different peer is still suspended.
TwoTalksOverlap ==
    \E t1, t2 \in Tasks :
        /\ TalkTo(t1, "suspended")
        /\ TalkTo(t2, "idle")
        /\ t_ret[t2] = Ok(<<7>>)
        /\ t_op[t1].enr # t_op[t2].enr
        /\ calls_made = 2

\* C9: a finished send_talkreq made exactly one talk request, returned an
\* error when that request failed and exactly the response bytes when it
\* succeeded.
C9_ErrorsSurfaced ==
    \A t \in Tasks :
        (TalkTo(t, "idle") /\ t_ret[t] # NoRet) =>
            /\ talk_calls[t] = 1
            /\ t_under[t].ok => t_ret[t] = Ok(t_under[t].value)
            /\ ~t_under[t].ok =>
                  /\ ~t_ret[t].ok
                  /\ t_ret[t].value = <<"TalkReq query failed", t_under[t].value>>

\* A send_talkreq returned the timeout of its talk request as an error, and
\* another returned the bytes of its response.
C9_Witness ==
    \E t1, t2 \in Tasks :
        /\ TalkTo(t1, "idle")
        /\ t_under[t1] = Err("Timeout")
        /\ ~t_ret[t1].ok
        /\ TalkTo(t2, "idle")
        /\ t_under[t2] = Ok(<<7>>)
        /\ t_ret[t2] = Ok(<<7>>)

\* ----------------------------------------------------- claims: peer-test
RECURSIVE Expected(_)
Expected(targets) ==
    IF targets = <<>>
       THEN <<>>
       ELSE LET e == Head(targets)
                ev(kind, k) == [ev |-> kind, enr |-> e, rpc |-> Rpcs[k].rpc,
                                arg |-> Rpcs[k].arg]
            IN  <<ev("sent", 1), ev("done", 1), ev("sent", 2), ev("done", 2),
                  ev("sent", 3), ev("done", 3)>> \o Expected(Tail(targets))

\* C10: the program sends, for each configured peer in turn, one Ping, one
\* FindNodes and one FindContent, each completed before the next is sent, and
\* once it has stopped sending (it idles, was interrupted, or ended) every
\* configured peer has had all three.
C10_AllPeersTested ==
    /\ IsPrefix(pt_log, Expected(pt_cfg))
    /\ pt_pc \in {"ctrl_c", "exit", "panicked_rpc"} => pt_log = Expected(pt_cfg)

\* ------------------------------------------- claims: startup and interrupt
HasUnparsable(strs) == \E i \in 1..Len(strs) : ~Parses(strs[i])

\* C11: a failure at startup is fatal and nothing is sent.  In trin-state a
\* failed startup step (bootnode parsing, building the identity, binding the
\* socket, building the network) leaves main panicked with no RPC sent, and a
\* run whose bootnode list holds an unparsable string or whose key is
\* malformed never sends one; in the peer tester a panic in
\* PortalnetProtocol::new or in the parsing of the targets comes before any
\* request, and a run with an unparsable target never sends one.
C11_StartupFailureFatal ==
    /\ sm_fail \in StartupFailures => sm_pc = "panicked" /\ sm_log = <<>>
    /\ HasUnparsable(sm_cfg.bootnodes) => sm_log = <<>>
    /\ sm_cfg.private_key = "malformed" => sm_log = <<>>
    /\ pt_pc \in {"panicked_new", "panicked_parse"} => pt_log = <<>>
    /\ HasUnparsable(pt_cfg) => pt_log = <<>>

\* A run of trin-state with two bootnodes of which the second does not parse
\* has ended after the panic.
C11_Witness ==
    /\ sm_fail = "parse"
    /\ Len(sm_cfg.bootnodes) = 2
    /\ Parses(sm_cfg.bootnodes[1])
    /\ proc = "exited"

Interrupted == sigint \/ proc = "killed"

\* C12: once the interrupt has been received no background task dequeues
\* anything: from then on the router takes no further command off its queue.
C12_NoWorkAfterInterrupt == [][Interrupted => deq_log' = deq_log]_vars

\* ------------------------------------------------- claims: the dispatcher
RepliesTo(i) == SelectSeq(replies, LAMBDA r : r.req = i)

Owned(i) == \E n \in Nets : inbound[i].protocol = ProtocolId(n)

DecodedTag(i) ==
    IF Decode(inbound[i].payload).ok
       THEN Decode(inbound[i].payload).value.tag
       ELSE "none"

IsRequest(i) == DecodedTag(i) \in {"Ping", "FindNodes", "FindContent"}

\* C13: no cross-talk between networks sharing the transport.  Every reply to
\* a request, and every lookup started for one, is made by the network that
\* owns the request's protocol id, and a request whose protocol id no network
\* owns has no reply.
C13_NoCrossTalk ==
    /\ \A k \in 1..Len(replies) :
          inbound[replies[k].req].protocol = ProtocolId(replies[k].by)
    /\ \A n \in Nets : \A i \in pending[n] : inbound[i].protocol = ProtocolId(n)
    /\ \A i \in 1..Len(inbound) : ~Owned(i) => RepliesTo(i) = <<>>

\* Both dispatchers have pulled a Ping of the state network, which the state
\* network alone answered, and a Ping of a protocol nobody owns.
C13_Witness ==
    /\ Len(inbound) >= 2
    /\ \A n \in Nets : cursor[n] >= 2
    /\ inbound[1].protocol = ProtocolId("state")
    /\ DecodedTag(1) = "Ping"
    /\ Len(RepliesTo(1)) = 1
    /\ RepliesTo(1)[1].by = "state"
    /\ ~Owned(2)

\* C14: a payload that does not decode never has a reply, of any kind, and
\* the dispatcher that dropped it goes on serving: it can take its next turn
\* whenever an entry is waiting, and no request behind the dropped payload is
\* passed over.
C14_MalformedDropped ==
    /\ \A i \in 1..Len(inbound) : DecodedTag(i) = "none" => RepliesTo(i) = <<>>
    /\ \A n \in Nets :
          /\ cursor[n] < Len(inbound) => ENABLED pull(n)
          /\ \A i \in 1..cursor[n] :
                (inbound[i].protocol = ProtocolId(n) /\ IsRequest(i)) =>
                   (i \in pending[n] \/ RepliesTo(i) # <<>>)

\* A truncated FindNodes of the state network was pulled and left unanswered,
\* and the Ping that arrived after it has its Pong.
C14_Witness ==
    /\ Len(inbound) >= 2
    /\ inbound[1] = [protocol |-> ProtocolId("state"), payload |-> <<3, 2, 0>>]
    /\ inbound[2] = [protocol |-> ProtocolId("state"), payload |-> <<1, 1, 9>>]
    /\ cursor["state"] >= 2
    /\ RepliesTo(1) = <<>>
    /\ Len(RepliesTo(2)) = 1

Paired(tag) ==
    CASE tag = "Ping" -> "Pong"
      [] tag = "FindNodes" -> "Nodes"
      [] tag = "FindContent" -> "Content"
      [] OTHER -> "none"

\* C15: every request a dispatcher has handled has exactly one reply, of the
\* paired type, unless its store lookup is still under way, and then it has
\* none yet; nothing but a handled request is ever answered.
C15_OneReplyPerRequest ==
    /\ \A n \in Nets : \A i \in 1..cursor[n] :
          (inbound[i].protocol = ProtocolId(n) /\ IsRequest(i)) =>
             IF i \in pending[n]
                THEN RepliesTo(i) = <<>>
                ELSE /\ Len(RepliesTo(i)) = 1
                     /\ RepliesTo(i)[1].msg.tag = Paired(DecodedTag(i))
    /\ \A k \in 1..Len(replies) :
          /\ IsRequest(replies[k].req)
          /\ replies[k].req <= cursor[replies[k].by]

\* A FindContent has its Content and a FindNodes its Nodes.
C15_Witness ==
    /\ Len(inbound) >= 2
    /\ DecodedTag(1) = "FindContent"
    /\ DecodedTag(2) = "FindNodes"
    /\ \A i \in 1..2 : /\ Len(RepliesTo(i)) = 1
                       /\ RepliesTo(i)[1].msg.tag = Paired(DecodedTag(i))

\* C16: a lookup that stays pending holds back nothing else.  With no promise
\* that the content store ever answers, every owned Ping and FindNodes that
\* has arrived is answered in the end.
C16_SlowLookupIsolated ==
    \A i \in 1..MaxInbound :
       (i <= Len(inbound) /\ Owned(i) /\ DecodedTag(i) \in {"Ping", "FindNodes"})
          ~> (RepliesTo(i) # <<>>)

\* The lookup of the first request is still pending and the Ping that came
\* after it to the same network has been answered.
C16_Witness ==
    /\ Len(inbound) >= 2
    /\ 1 \in pending["state"]
    /\ inbound[2].protocol = ProtocolId("state")
    /\ DecodedTag(2) = "Ping"
    /\ Len(RepliesTo(2)) = 1

\* ------------------------------------------- claims: the protocol engine
\* The ENRs of the reply when it decodes to a Nodes message.
ReplyEnrs ==
    IF fn_ret.reply.ok /\ Decode(fn_ret.reply.value).ok
          /\ Decode(fn_ret.reply.value).value.tag = "Nodes"
       THEN Decode(fn_ret.reply.value).value.enrs
       ELSE <<>>

InRequested(e) == LogDist(e, fn_args.enr) \in fn_args.distances

\* C17: every ENR send_find_nodes returns has its log-distance to the
\* responder in the requested set, and the entries outside are dropped one by
\* one: whenever the reply is a Nodes message the call succeeds with exactly
\* the reply's entries that are inside, in the reply's order.
C17_FindNodesFiltered ==
    fn_pc = "returned" =>
       /\ fn_ret.result.ok =>
             \A k \in 1..Len(fn_ret.result.value.enrs) :
                InRequested(fn_ret.result.value.enrs[k])
       /\ (fn_ret.reply.ok /\ Decode(fn_ret.reply.value).ok
              /\ Decode(fn_ret.reply.value).value.tag = "Nodes") =>
             /\ fn_ret.result.ok
             /\ fn_ret.result.value.enrs = SelectSeq(ReplyEnrs, InRequested)

\* A reply with one entry inside and one outside the requested distances
\* came back, and the call returned Ok with the one inside.
C17_Witness ==
    /\ fn_pc = "returned"
    /\ fn_args = [distances |-> {1, 2}, enr |-> 5]
    /\ ReplyEnrs = <<7, 0>>
    /\ fn_ret.result.ok
    /\ fn_ret.result.value.enrs = <<7>>

\* ------------------------------------------------ claims: the header codec
\* C18: round trip on bytes.  When a list of 15 items whose number is before
\* the London block, or of 16 items whose number is at or past it, decodes to
\* a Header, encoding that header gives the list back item by item, with the
\* same length declared.
C18_BytesRoundTrip ==
    (/\ hc_pc = "reencoded"
     /\ \/ hc_dec.value.number < LONDON_BLOCK_NUMBER /\ Len(hc_bytes) = 15
        \/ hc_dec.value.number >= LONDON_BLOCK_NUMBER /\ Len(hc_bytes) = 16)
       => /\ hc_stream.items = hc_bytes
          /\ hc_stream.declared = Len(hc_bytes)

\* A list of 16 items at the London block itself, with a base fee of 7, was
\* decoded and encoded again.
C18_Witness ==
    /\ hc_pc = "reencoded"
    /\ Len(hc_bytes) = 16
    /\ hc_dec.value.number = LONDON_BLOCK_NUMBER
    /\ hc_dec.value.base_fee_per_gas = Some(7)
    /\ hc_stream.items = hc_bytes

\* The header whose encoding hc_stream holds.
Streamed == IF hc_pc = "reencoded" THEN hc_dec.value ELSE hc_hdr

SealWritten == hc_seal /\ Streamed.mix_hash.some /\ Streamed.nonce.some

\* C19: in every encoding stream_rlp produces, whatever with_seal is and
\* whichever of mix hash, nonce and base fee are present, the length given to
\* begin_list is the number of items appended; the seal, when written, is
\* items 14 and 15, right after the 13 base fields; the base fee, when
\* present, is the last item.
C19_DeclaredLengthMatches ==
    hc_pc \in {"encoded", "redecoded", "reencoded"} =>
       /\ hc_stream.declared = Len(hc_stream.items)
       /\ Len(hc_stream.items) = 13 + (IF SealWritten THEN 2 ELSE 0)
                                    + (IF Streamed.base_fee_per_gas.some THEN 1 ELSE 0)
       /\ \A i \in 1..13 :
             hc_stream.items[i] = encode_field(Kind(BaseFields[i]),
                                               Streamed[BaseFields[i]])
       /\ SealWritten =>
             /\ hc_stream.items[14] = encode_field("H256", Streamed.mix_hash.value)
             /\ hc_stream.items[15] = encode_field("u64", Streamed.nonce.value)
       /\ Streamed.base_fee_per_gas.some =>
             Last(hc_stream.items) =
                encode_field("U256", Streamed.base_fee_per_gas.value)

\* A header with a base fee but no nonce was encoded with_seal: 14 items, the
\* seal left out.
C19_Witness ==
    /\ hc_pc = "encoded"
    /\ hc_seal
    /\ hc_hdr.mix_hash.some
    /\ ~hc_hdr.nonce.some
    /\ hc_hdr.base_fee_per_gas.some
    /\ Len(hc_stream.items) = 14

\* C20: round trip on values.  A header with mix hash and nonce present, and
\* with a base fee exactly when its number is at or past the London block,
\* that was encoded with its seal decodes to a header equal to it in all 16
\* fields.
C20_ValueRoundTrip ==
    (/\ hc_pc \in {"redecoded", "panicked"}
     /\ hc_seal
     /\ hc_hdr.mix_hash.some
     /\ hc_hdr.nonce.some
     /\ hc_hdr.base_fee_per_gas.some <=> hc_hdr.number >= LONDON_BLOCK_NUMBER)
       => /\ hc_pc = "redecoded"
          /\ hc_dec.ok
          /\ \A f \in DOMAIN hc_hdr : hc_dec.value[f] = hc_hdr[f]
          /\ DOMAIN hc_dec.value = DOMAIN hc_hdr

\* A sealed header of the London block itself, with a base fee, made the
\* round trip.
C20_Witness ==
    /\ hc_pc = "redecoded"
    /\ hc_seal
    /\ hc_hdr.number = LONDON_BLOCK_NUMBER
    /\ hc_hdr.nonce = Some(300)
    /\ hc_hdr.base_fee_per_gas = Some(7)
    /\ hc_dec = Ok(hc_hdr)

\* --------------------------------------------- claims: discover_nodes
\* Task t's call of discover_nodes returns in this step, its lookup having
\* come back as `lookup`.
DiscoverReturns(t, lookup) ==
    /\ t_pc[t] = "suspended"
    /\ t_op[t].name = "discover_nodes"
    /\ t_pc'[t] = "idle"
    /\ t_ret'[t].ok = discover_nodes(table, lookup).res.ok
    /\ table' = discover_nodes(table, lookup).table

\* C21: discover_nodes changes the routing table all-or-nothing.  Whenever a
\* call returns, for whatever outcome of its lookup: if it returns Ok every
\* node the lookup found is in the table, and if it returns an error the
\* table is what it was before the call.
C21_DiscoverAllOrNothing ==
    [][\A t \in Tasks, lookup \in Lookups :
          DiscoverReturns(t, lookup) =>
             IF t_ret'[t].ok
                THEN Range(lookup.value) \subseteq table'
                ELSE table' = table]_vars

====
